---- MODULE Spec2Model ----
(***************************************************************************)
(* Model of prettify_stats.py: CSV statistics files are read, one          *)
(* worksheet per file is written (data rows, percentage formulas,          *)
(* conditional formats, summary formulas, pie chart), a 'Total' sheet is   *)
(* added and the workbook is closed.                                       *)
(*                                                                         *)
(* Strings that the program inspects character by character (sheet names,  *)
(* numeric CSV fields) are sequences of one-character strings.  A cell     *)
(* address is kept the way the program uses it: the write calls take       *)
(* 0-based (row, column) indices, formula text names cells by column       *)
(* letter and 1-based row number.                                          *)
(***************************************************************************)
EXTENDS Integers, Sequences, FiniteSets, TLC

VARIABLES argv, fs, pc, data, workbook, worksheet_names, stdout, exit_status, events

vars == <<argv, fs, pc, data, workbook, worksheet_names, stdout, exit_status, events>>

(* ---------------------------------------------------------------- bounds *)
MaxFiles == 2
MaxRows == 3
MaxParts == 3

(* ------------------------------------------------------ string utilities *)
Min(a, b) == IF a < b THEN a ELSE b
Max(a, b) == IF a > b THEN a ELSE b

\* s[k:] for 0 <= k
SliceFrom(s, k) == SubSeq(s, Min(k, Len(s)) + 1, Len(s))
\* s[:k] for 0 <= k
SliceTo(s, k) == SubSeq(s, 1, Min(k, Len(s)))
\* s[:-k] for k > 0
SliceDropLast(s, k) == SubSeq(s, 1, Max(Len(s) - k, 0))

startswith(s, p) == Len(s) >= Len(p) /\ SubSeq(s, 1, Len(p)) = p
endswith(s, p) == Len(s) >= Len(p) /\ SubSeq(s, Len(s) - Len(p) + 1, Len(s)) = p

STATS == <<"s", "t", "a", "t", "s", "-">>
CSV == <<".", "c", "s", "v">>
TOTAL == <<"T", "o", "t", "a", "l">>
NameLimit == 30

\* lines 17-22 with the truncation taken before the stripping
DeriveNameTruncFirst(worksheet_name) ==
    LET n0 == SliceTo(worksheet_name, NameLimit)
        n1 == IF startswith(n0, STATS) THEN SliceFrom(n0, Len(STATS)) ELSE n0
    IN  IF endswith(n1, CSV) THEN SliceDropLast(n1, Len(CSV)) ELSE n1

\* lines 17-22: strip 'stats-', strip '.csv', keep the first 30 characters
DeriveName(worksheet_name) ==
    LET n1 == IF startswith(worksheet_name, STATS)
              THEN SliceFrom(worksheet_name, Len(STATS)) ELSE worksheet_name
        n2 == IF endswith(n1, CSV) THEN SliceDropLast(n1, Len(CSV)) ELSE n1
    IN  SliceTo(n2, NameLimit)

\* str.lower() on the characters of the names used here
LowerChar(c) == IF c = "T" THEN "t" ELSE c
Lower(s) == [i \in 1..Len(s) |-> LowerChar(s[i])]

(* --------------------------------------------------------------- int()   *)
Digits == <<"0", "1", "2", "3", "4", "5", "6", "7", "8", "9">>
IsDigit(c) == \E d \in 1..10 : Digits[d] = c
DigitVal(c) == (CHOOSE d \in 1..10 : Digits[d] = c) - 1

\* int(s) raises ValueError unless s is a non-empty run of decimal digits
\* (signs, blanks and underscores do not occur in the fields modelled)
IsInt(s) == Len(s) > 0 /\ \A i \in 1..Len(s) : IsDigit(s[i])

RECURSIVE IntOf(_)
IntOf(s) == IF Len(s) = 0 THEN 0
            ELSE IntOf(SubSeq(s, 1, Len(s) - 1)) * 10 + DigitVal(s[Len(s)])

(* ------------------------------------------------------ column letters   *)
ColLetters == <<"A", "B", "C", "D", "E", "F", "G", "H", "I", "J", "K", "L", "M", "N", "O", "P">>
\* chr(ord('A') + k)
Chr(k) == ColLetters[k + 1]
\* the 0-based column index a column letter denotes
ColIndex(letter) == (CHOOSE i \in 1..Len(ColLetters) : ColLetters[i] = letter) - 1

(* ------------------------------------------------------------- sorting   *)
file_size_data_column == 6
total_column == 9

\* key=lambda x: int(x[file_size_data_column])
SortKey(x) == IntOf(x[file_size_data_column + 1])

\* evaluating the key of a row raises IndexError (short row) or ValueError
KeyRaises(x) == Len(x) < file_size_data_column + 1 \/ ~IsInt(x[file_size_data_column + 1])

\* an insertion that puts x before the rows of equal key
InsertBeforeEqual(s, x) ==
    LET p == Cardinality({i \in 1..Len(s) : SortKey(s[i]) > SortKey(x)})
    IN  SubSeq(s, 1, p) \o <<x>> \o SubSeq(s, p + 1, Len(s))

\* sorted(..., reverse=True) keeps rows of equal key in their input order:
\* each row goes behind every row whose key is at least its own
InsertDesc(s, x) ==
    LET p == Cardinality({i \in 1..Len(s) : SortKey(s[i]) >= SortKey(x)})
    IN  SubSeq(s, 1, p) \o <<x>> \o SubSeq(s, p + 1, Len(s))

RECURSIVE SortedDesc(_)
SortedDesc(s) == IF s = <<>> THEN <<>>
                 ELSE InsertDesc(SortedDesc(SubSeq(s, 1, Len(s) - 1)), s[Len(s)])

\* (x for x in data if x)
NonEmptyRows(rows) == SelectSeq(rows, LAMBDA x : x # <<>>)

(* ---------------------------------------------------------------- cells  *)
StrCell(s) == [t |-> "str", s |-> s, fmt |-> "none"]
NumCell(n) == [t |-> "num", n |-> n, fmt |-> "none"]
FormulaCell(f, fmt) == [t |-> "formula", f |-> f, fmt |-> fmt]
CellRef(letter, row_no) == [col |-> letter, row |-> row_no]

\* cells with one more write applied; a later write replaces an earlier one
WriteCell(cells, r, c, v) ==
    [p \in (DOMAIN cells) \cup {<<r, c>>} |-> IF p = <<r, c>> THEN v ELSE cells[p]]

headers == <<"File", "ast", "ast %", "walk", "walk %", "append comments", "append comments %",
             "walk comments", "walk comments %", "total", "file size (bytes)">>

\* lines 35-36
HeaderCells == [p \in {<<0, i>> : i \in 0..(Len(headers) - 1)} |-> StrCell(headers[p[2] + 1])]

\* a percentage formula whose denominator names the row above
PctFormulaRowAbove(letter, row) ==
    FormulaCell([op |-> "div", num |-> CellRef(letter, row + 1),
                 den |-> CellRef(Chr(total_column), row)], "percent")

\* lines 48-49, 52: '=' + letter + row_str + '/' + total_cell, row_str = str(row + 1)
PctFormula(letter, row) ==
    FormulaCell([op |-> "div", num |-> CellRef(letter, row + 1),
                 den |-> CellRef(Chr(total_column), row + 1)], "percent")

\* the value written for a numeric field, when int() accepts it
IntCell(field) == IF IsInt(field) THEN NumCell(IntOf(field)) ELSE NumCell(0)

\* lines 50-60: the eleven writes of one data row, in program order; ok is
\* FALSE for a write whose int() raises
RowWrites(row, rd) ==
    << [c |-> 0,  ok |-> TRUE,         v |-> StrCell(rd[1])],
       [c |-> 1,  ok |-> IsInt(rd[2]), v |-> IntCell(rd[2])],
       [c |-> 2,  ok |-> TRUE,         v |-> PctFormula("B", row)],
       [c |-> 3,  ok |-> IsInt(rd[3]), v |-> IntCell(rd[3])],
       [c |-> 4,  ok |-> TRUE,         v |-> PctFormula("D", row)],
       [c |-> 5,  ok |-> IsInt(rd[4]), v |-> IntCell(rd[4])],
       [c |-> 6,  ok |-> TRUE,         v |-> PctFormula("F", row)],
       [c |-> 7,  ok |-> IsInt(rd[5]), v |-> IntCell(rd[5])],
       [c |-> 8,  ok |-> TRUE,         v |-> PctFormula("H", row)],
       [c |-> 9,  ok |-> IsInt(rd[6]), v |-> IntCell(rd[6])],
       [c |-> 10, ok |-> IsInt(rd[7]), v |-> IntCell(rd[7])] >>

\* how many writes of the row complete before one raises
WritesDone(w) == IF \A i \in 1..Len(w) : w[i].ok THEN Len(w)
                 ELSE (CHOOSE i \in 1..Len(w) : ~w[i].ok /\ \A j \in 1..(i - 1) : w[j].ok) - 1

RECURSIVE ApplyWrites(_, _, _, _)
ApplyWrites(cells, row, w, n) ==
    IF n = 0 THEN cells
    ELSE WriteCell(ApplyWrites(cells, row, w, n - 1), row, w[n].c, w[n].v)

\* lines 43-60: for row, row_data in enumerate(sorted_data, 1)
RECURSIVE WriteRows(_, _, _)
WriteRows(cells, sorted_data, row) ==
    IF row > Len(sorted_data) THEN [cells |-> cells, raised |-> FALSE]
    ELSE LET row_data == sorted_data[row]
         IN  IF row_data = <<>> THEN WriteRows(cells, sorted_data, row + 1)
             ELSE IF Len(row_data) # 7 THEN [cells |-> cells, raised |-> TRUE]
             ELSE LET w == RowWrites(row, row_data)
                      n == WritesDone(w)
                      after == ApplyWrites(cells, row, w, n)
                  IN  IF n < Len(w) THEN [cells |-> after, raised |-> TRUE]
                      ELSE WriteRows(after, sorted_data, row + 1)

(* -------------------------------------------------- conditional formats  *)
colored_format_columns == <<"C", "E", "G", "I">>

\* lines 65-70; the thresholds 0.75, 0.5, 0.25, 0 are kept in hundredths
formats == << [v |-> 75, f |-> "black_bg_format"],
              [v |-> 50, f |-> "red_bg_format"],
              [v |-> 25, f |-> "yellow_bg_format"],
              [v |-> 0,  f |-> "green_bg_format"] >>

\* line 64: '{0}2:{0}{1}'.format(c, len(data))
CondRange(c, sheet_data) == [col |-> c, r1 |-> 2, r2 |-> Len(sheet_data)]

\* lines 63-76: the sixteen rules in the order of the conditional_format calls
CondRules(sheet_data) ==
    [k \in 1..(Len(colored_format_columns) * Len(formats)) |->
        LET c == colored_format_columns[((k - 1) \div Len(formats)) + 1]
            fm == formats[((k - 1) % Len(formats)) + 1]
        IN  [range |-> CondRange(c, sheet_data), type |-> "cell",
             criteria |-> "greater than", value |-> fm.v, format |-> fm.f]]

(* ------------------------------------------------------- summary panel   *)
\* len(headers) + 2
stats_column == Len(headers) + 2

\* lines 83-95: '=AVERAGE(X1:X' + str(len(sorted_data)) + ')'
AverageFormula(letter, sorted_data) ==
    [op |-> "average", col |-> letter, r1 |-> 1, r2 |-> Len(sorted_data)]

\* line 98: '=SUM(J2:J' + str(len(sorted_data)) + ') / 1000 / 1000'
TotalMsFormula(sorted_data) ==
    [op |-> "sum_div", col |-> "J", r1 |-> 2, r2 |-> Len(sorted_data), d1 |-> 1000, d2 |-> 1000]

\* lines 82-99
RECURSIVE WriteAll(_, _)
WriteAll(cells, w) ==
    IF w = <<>> THEN cells
    ELSE WriteCell(WriteAll(cells, SubSeq(w, 1, Len(w) - 1)),
                   w[Len(w)].r, w[Len(w)].c, w[Len(w)].v)

StatsWrites(sorted_data) ==
    << [r |-> 0, c |-> stats_column,     v |-> StrCell("Average AST time")],
       [r |-> 0, c |-> stats_column + 1, v |-> FormulaCell(AverageFormula("B", sorted_data), "none")],
       [r |-> 1, c |-> stats_column,     v |-> StrCell("AST creation")],
       [r |-> 1, c |-> stats_column + 1, v |-> FormulaCell(AverageFormula("C", sorted_data), "percent")],
       [r |-> 2, c |-> stats_column,     v |-> StrCell("Walk")],
       [r |-> 2, c |-> stats_column + 1, v |-> FormulaCell(AverageFormula("E", sorted_data), "percent")],
       [r |-> 3, c |-> stats_column,     v |-> StrCell("Append Comments")],
       [r |-> 3, c |-> stats_column + 1, v |-> FormulaCell(AverageFormula("G", sorted_data), "percent")],
       [r |-> 4, c |-> stats_column,     v |-> StrCell("Walk Comments")],
       [r |-> 4, c |-> stats_column + 1, v |-> FormulaCell(AverageFormula("I", sorted_data), "percent")],
       [r |-> 5, c |-> stats_column,     v |-> StrCell("Total")],
       [r |-> 5, c |-> stats_column + 1, v |-> FormulaCell(TotalMsFormula(sorted_data), "two_decimal")],
       [r |-> 5, c |-> stats_column + 2, v |-> StrCell("ms")] >>

\* lines 101-108
SheetChart(worksheet_name) ==
    [type |-> "pie", at |-> CellRef(Chr(stats_column), 8),
     categories |-> [sheet |-> worksheet_name, col |-> Chr(stats_column), r1 |-> 2, r2 |-> 5],
     values |-> [sheet |-> worksheet_name, col |-> Chr(stats_column + 1), r1 |-> 2, r2 |-> 5]]

(* ------------------------------------------------------------- workbook  *)
NoWorkbook == [created |-> FALSE, sheets |-> <<>>, formats |-> <<>>, closed |-> 0]

\* Workbook.add_worksheet raises when the name is in use, case ignored
NameInUse(wb, name) == \E i \in 1..Len(wb.sheets) : Lower(wb.sheets[i].name) = Lower(name)

\* the sheet add_worksheet(name) adds carries the name it was given
NewSheet(name) == [name |-> name, cells |-> <<>>, cond |-> <<>>, charts |-> <<>>]

\* lines 28-33
SheetFormats == <<"green_bg_format", "yellow_bg_format", "red_bg_format",
                  "black_bg_format", "percent_format", "two_decimal_format">>

\* lines 14-110.  The result carries the workbook as the call leaves it, the
\* returned name, and whether the call raised.
create_worksheet(wb, worksheet_name, sheet_data) ==
    LET name == DeriveName(worksheet_name)
    IN  IF NameInUse(wb, name)
        THEN [wb |-> wb, raised |-> TRUE, name |-> name]
        ELSE
        LET wb1 == [wb EXCEPT !.formats = @ \o SheetFormats]
            sh0 == [NewSheet(name) EXCEPT !.cells = HeaderCells]
            filtered == NonEmptyRows(sheet_data)
        IN  IF \E i \in 1..Len(filtered) : KeyRaises(filtered[i])
            THEN [wb |-> [wb1 EXCEPT !.sheets = Append(@, sh0)], raised |-> TRUE, name |-> name]
            ELSE
            LET sorted_data == SortedDesc(filtered)
                rows == WriteRows(sh0.cells, sorted_data, 1)
            IN  IF rows.raised
                THEN [wb |-> [wb1 EXCEPT !.sheets = Append(@, [sh0 EXCEPT !.cells = rows.cells])],
                      raised |-> TRUE, name |-> name]
                ELSE
                LET sh == [sh0 EXCEPT !.cells = WriteAll(rows.cells, StatsWrites(sorted_data)),
                                      !.cond = CondRules(sheet_data),
                                      !.charts = <<SheetChart(name)>>]
                IN  [wb |-> [wb1 EXCEPT !.sheets = Append(@, sh)], raised |-> FALSE, name |-> name]

\* line 122: '={0}!$O$6'.format(name)
TotalRefFormula(name) == [op |-> "ref", sheet |-> name, col |-> "O", row |-> 6]

\* a share formula that divides by the row above the aggregate
ShareFormulaRowAbove(name, names) ==
    [op |-> "ref_div", sheet |-> name, col |-> "O", row |-> 6,
     dcol |-> "B", drow |-> Len(names) + 2]

\* line 123: '={0}!$O$6 / $B${1}'.format(name, len(worksheet_names) + 3)
ShareFormula(name, names) ==
    [op |-> "ref_div", sheet |-> name, col |-> "O", row |-> 6,
     dcol |-> "B", drow |-> Len(names) + 3]

\* line 126: '=SUM($B$1:$B${0})'.format(len(worksheet_names))
AggregateFormula(names) == [op |-> "sum", col |-> "B", r1 |-> 1, r2 |-> Len(names)]

\* lines 120-126
TotalWrites(names) ==
    [k \in 1..(3 * Len(names)) |->
        LET i == (k - 1) \div 3
            name == names[i + 1]
        IN  CASE (k - 1) % 3 = 0 -> [r |-> i, c |-> 0, v |-> StrCell(name)]
              [] (k - 1) % 3 = 1 -> [r |-> i, c |-> 1, v |-> FormulaCell(TotalRefFormula(name), "none")]
              [] OTHER -> [r |-> i, c |-> 2, v |-> FormulaCell(ShareFormula(name, names), "percent")]]
    \o << [r |-> Len(names) + 2, c |-> 0, v |-> StrCell("Total")],
          [r |-> Len(names) + 2, c |-> 1, v |-> FormulaCell(AggregateFormula(names), "none")] >>

\* lines 128-133
TotalChart(names) ==
    [type |-> "pie", at |-> CellRef("A", 1),
     categories |-> [sheet |-> TOTAL, col |-> "A", r1 |-> 1, r2 |-> Len(names)],
     values |-> [sheet |-> TOTAL, col |-> "B", r1 |-> 1, r2 |-> Len(names)]]

\* lines 113-133
create_total_chart(wb, names) ==
    IF NameInUse(wb, TOTAL)
    THEN [wb |-> wb, raised |-> TRUE]
    ELSE LET sh == [NewSheet(TOTAL) EXCEPT !.cells = WriteAll(<<>>, TotalWrites(names)),
                                           !.charts = <<TotalChart(names)>>]
         IN  [wb |-> [wb EXCEPT !.sheets = Append(@, sh),
                                !.formats = Append(@, "percent_format")],
              raised |-> FALSE]

(* ---------------------------------------------------------------- inputs *)
Rep(c, n) == [i \in 1..n |-> c]

PROG == <<"p">>
HeaderLine == <<"File", <<"a">>, <<"w">>, <<"c">>, <<"m">>, <<"t">>, <<"z">>>>

\* data rows: file, ast, walk, append comments, walk comments, total, file size
RowA(file, size) == <<file, <<"2">>, <<"6">>, <<"0">>, <<"1", "2">>, <<"2", "0">>, size>>
RowB(file, size) == <<file, <<"3", "6">>, <<"1">>, <<"2">>, <<"1">>, <<"4", "0">>, size>>
BadAst == <<"f1", <<"x">>, <<"6">>, <<"0">>, <<"1", "2">>, <<"2", "0">>, <<"5", "0">>>>
BadSize == <<"f2", <<"2">>, <<"6">>, <<"0">>, <<"1", "2">>, <<"2", "0">>, <<"q">>>>
BadTotal == <<"f1", <<"2">>, <<"6">>, <<"0">>, <<"1", "2">>, <<>>, <<"5", "0">>>>

Sizes == {<<"5", "0">>, <<"2", "0", "0">>, <<"1", "0">>}
GoodRows == {RowA(f, z) : f \in {"f1", "f2"}, z \in Sizes}
              \cup {RowB("f1", <<"5", "0">>), RowB("f2", <<"2", "0", "0">>)}
SheetRows == GoodRows \cup {<<>>, BadAst, BadSize}

RECURSIVE SeqsUpTo(_, _)
SeqsUpTo(S, n) == IF n = 0 THEN {<<>>}
                  ELSE LET shorter == SeqsUpTo(S, n - 1)
                       IN  shorter \cup {Append(s, x) : s \in shorter, x \in S}

Missing == [readable |-> FALSE, lines |-> <<>>]
File(lines) == [readable |-> TRUE, lines |-> lines]

\* the file names of the whole-run specification
LongA == Rep("x", NameLimit) \o <<"a">>
LongB == Rep("x", NameLimit) \o <<"b">>
RunNames == {STATS \o <<"a">> \o CSV, <<"a">> \o CSV, <<"b">>, TOTAL \o CSV, LongA, LongB}
RunContents == {Missing,
                File(<<HeaderLine, RowA("f1", <<"5", "0">>)>>),
                File(<<HeaderLine, RowB("f1", <<"5", "0">>), <<>>, RowA("f2", <<"2", "0", "0">>)>>),
                File(<<HeaderLine, RowA("f1", <<"5", "0">>), BadTotal>>)}

\* the file names of the sheet-name specification: up to MaxParts parts
NameParts == {STATS, CSV, <<"a">>, <<"b">>, Rep("x", NameLimit + 1)}
RECURSIVE Concat(_)
Concat(ss) == IF ss = <<>> THEN <<>> ELSE ss[1] \o Concat(Tail(ss))
GenNames == {Concat(ps) : ps \in SeqsUpTo(NameParts, MaxParts)} \ {<<>>}

SheetFile == STATS \o <<"a">> \o CSV

Range(s) == {s[i] : i \in 1..Len(s)}

InitRest ==
    /\ pc = "main"
    /\ data = <<>>
    /\ workbook = NoWorkbook
    /\ worksheet_names = <<>>
    /\ stdout = <<>>
    /\ exit_status = -1
    /\ events = <<>>

\* whole runs over up to MaxFiles files
Init ==
    /\ \E files \in SeqsUpTo(RunNames, MaxFiles) :
          /\ argv = PROG \o files
          /\ fs \in [Range(files) -> RunContents]
    /\ InitRest

\* one file, every arrangement of up to MaxRows rows
InitSheet ==
    /\ \E files \in {<<>>, <<SheetFile>>} :
          /\ argv = PROG \o files
          /\ fs \in [Range(files) -> {Missing, File(<<>>)}
                                      \cup {File(<<HeaderLine>> \o rows) : rows \in SeqsUpTo(SheetRows, MaxRows)}]
    /\ InitRest

\* one file, every generated name
InitName ==
    /\ \E files \in {<<>>} \cup {<<n>> : n \in GenNames} :
          /\ argv = PROG \o files
          /\ fs \in [Range(files) -> {Missing, File(<<HeaderLine, RowA("f1", <<"5", "0">>)>>)}]
    /\ InitRest

(* --------------------------------------------------------------- actions *)
\* sys.argv[1:]
Files == Tail(argv)

\* open() that swallows the error and yields no rows
read_data_swallow(filename) ==
    [raised |-> FALSE, rows |-> SliceFrom(fs[filename].lines, 1)]

\* lines 8-11: list(reader)[1:], or the error of open()
read_data(filename) ==
    IF fs[filename].readable
    THEN [raised |-> FALSE, rows |-> SliceFrom(fs[filename].lines, 1)]
    ELSE [raised |-> TRUE, rows |-> <<>>]

\* a loop that leaves the last dataset out
MoreSheetsButLast == Len(worksheet_names) < Len(data) - 1

\* line 139: the for loop still has a dataset to go
MoreSheets == Len(worksheet_names) < Len(data)

\* lines 147-149
Main ==
    /\ pc = "main"
    /\ IF Len(argv) < 2
       THEN /\ stdout' = Append(stdout, <<"Usage", argv[1]>>)
            /\ exit_status' = 1
            /\ pc' = "exited"
       ELSE /\ pc' = "read"
            /\ UNCHANGED <<stdout, exit_status>>
    /\ UNCHANGED <<argv, fs, data, workbook, worksheet_names, events>>

\* line 151: one element of the list comprehension
ReadData ==
    /\ pc = "read"
    /\ LET filename == Files[Len(data) + 1]
           res == read_data(filename)
       IN  IF res.raised
           THEN /\ pc' = "raised"
                /\ exit_status' = 1
                /\ UNCHANGED <<data, events>>
           ELSE /\ data' = Append(data, <<filename, res.rows>>)
                /\ events' = Append(events, [e |-> "read", i |-> Len(data) + 1])
                /\ pc' = IF Len(data) + 1 = Len(Files) THEN "workbook" ELSE "read"
                /\ UNCHANGED exit_status
    /\ UNCHANGED <<argv, fs, workbook, worksheet_names, stdout>>

\* lines 137-138
NewWorkbook ==
    /\ pc = "workbook"
    /\ workbook' = [NoWorkbook EXCEPT !.created = TRUE]
    /\ worksheet_names' = <<>>
    /\ pc' = "sheets"
    /\ UNCHANGED <<argv, fs, data, stdout, exit_status, events>>

\* lines 139-140: one iteration
CreateWorksheet ==
    /\ pc = "sheets"
    /\ MoreSheets
    /\ LET i == Len(worksheet_names) + 1
           res == create_worksheet(workbook, data[i][1], data[i][2])
       IN  /\ stdout' = Append(stdout, <<"Processing", data[i][1]>>)
           /\ workbook' = res.wb
           /\ events' = IF Len(res.wb.sheets) > Len(workbook.sheets)
                        THEN Append(events, [e |-> "sheet", i |-> i]) ELSE events
           /\ IF res.raised
              THEN /\ pc' = "raised"
                   /\ exit_status' = 1
                   /\ UNCHANGED worksheet_names
              ELSE /\ worksheet_names' = Append(worksheet_names, res.name)
                   /\ UNCHANGED <<pc, exit_status>>
    /\ UNCHANGED <<argv, fs, data>>

\* line 141
CreateTotalChart ==
    /\ pc = "sheets"
    /\ ~MoreSheets
    /\ LET res == create_total_chart(workbook, worksheet_names)
       IN  /\ workbook' = res.wb
           /\ IF res.raised
              THEN /\ pc' = "raised"
                   /\ exit_status' = 1
                   /\ UNCHANGED events
              ELSE /\ pc' = "close"
                   /\ events' = Append(events, [e |-> "total", i |-> 0])
                   /\ UNCHANGED exit_status
    /\ UNCHANGED <<argv, fs, data, worksheet_names, stdout>>

\* line 143
Close ==
    /\ pc = "close"
    /\ workbook' = [workbook EXCEPT !.closed = @ + 1]
    /\ events' = Append(events, [e |-> "close", i |-> 0])
    /\ exit_status' = 0
    /\ pc' = "done"
    /\ UNCHANGED <<argv, fs, data, worksheet_names, stdout>>

Next == Main \/ ReadData \/ NewWorkbook \/ CreateWorksheet \/ CreateTotalChart \/ Close

Spec == Init /\ [][Next]_vars
SpecSheet == InitSheet /\ [][Next]_vars
SpecName == InitName /\ [][Next]_vars

(* ------------------------------------------- reading the workbook back   *)
\* the rows (1-based, as in formula text) a range r1:r2 denotes; a range
\* written backwards denotes the same cells
RangeRows(r1, r2) == Min(r1, r2)..Max(r1, r2)

\* the cell at column letter and 1-based row, as formula text names it
At(sh, letter, row_no) == <<row_no - 1, ColIndex(letter)>>
HasNum(sh, pos) == pos \in DOMAIN sh.cells /\ sh.cells[pos].t = "num"

RECURSIVE SumOver(_, _)
SumOver(f, S) == IF S = {} THEN 0
                 ELSE LET x == CHOOSE y \in S : TRUE IN f[x] + SumOver(f, S \ {x})

\* SUM(col r1:r2): the numeric cells of the range
SumRange(sh, letter, r1, r2) ==
    LET rows == {r \in RangeRows(r1, r2) : HasNum(sh, At(sh, letter, r))}
    IN  SumOver([r \in rows |-> sh.cells[At(sh, letter, r)].n], rows)

\* the sheets create_worksheet returned from, with their datasets
Completed == 1..Len(worksheet_names)
InputRows(k) == NonEmptyRows(data[k][2])
\* the 0-based rows of sheet sh that hold a complete data row
DataRows(sh) == {r \in 1..(MaxRows + 2) : <<r, 10>> \in DOMAIN sh.cells}

RowValid(x) == x = <<>> \/ (Len(x) = 7 /\ \A j \in 2..7 : IsInt(x[j]))
FileValid(f) == f.readable /\ \A i \in 2..Len(f.lines) : RowValid(f.lines[i])

(* ================================================================ claims *)

\* C1: for every per-file sheet with n >= 1 data rows, the grand-total cell
\* is SUM over a range that yields the sum of the total-time values of all n
\* data rows, divided by 1,000,000.
C1_TotalMsSumsAllRows ==
    \A k \in Completed :
        LET sh == workbook.sheets[k]
            rows == InputRows(k)
            f == sh.cells[<<5, stats_column + 1>>].f
        IN  Len(rows) >= 1 =>
              /\ f.op = "sum_div"
              /\ f.d1 * f.d2 = 1000000
              /\ SumRange(sh, f.col, f.r1, f.r2)
                    = SumOver([i \in 1..Len(rows) |-> IntOf(rows[i][6])], 1..Len(rows))

\* C2: every run over N >= 1 valid input datasets completes, and the
\* finalized workbook holds exactly N + 1 sheets.
C2_AlwaysNPlusOneSheets ==
    (Len(Files) >= 1 /\ \A n \in Range(Files) : FileValid(fs[n])) =>
        /\ pc # "raised"
        /\ pc = "done" => Len(workbook.sheets) = Len(Files) + 1

\* the order of the events logged so far
EventsOrdered ==
    LET N == Len(Files)
        kind(j) == events[j].e
        reads == {j \in 1..Len(events) : kind(j) = "read"}
        sheets == {j \in 1..Len(events) : kind(j) = "sheet"}
    IN  /\ \A j \in 1..Len(events) :
              /\ kind(j) = "read" => j <= N /\ events[j].i = j
              /\ kind(j) = "sheet" => /\ Cardinality(reads) = N
                                      /\ \A r \in reads : r < j
                                      /\ events[j].i = j - N
                                      /\ workbook.sheets[j - N].name = DeriveName(Files[j - N])
              /\ kind(j) = "total" => /\ j = 2 * N + 1
                                      /\ Cardinality(sheets) = N
                                      /\ workbook.sheets[N + 1].name = TOTAL
              /\ kind(j) = "close" => j = 2 * N + 2 /\ kind(j - 1) = "total"
        /\ workbook.closed <= 1
        /\ workbook.closed = 1 <=> (Len(events) > 0 /\ kind(Len(events)) = "close")
        /\ Len(workbook.sheets) = Cardinality({j \in 1..Len(events) : kind(j) \in {"sheet", "total"}})

\* C3: all files are read first, then one sheet per input in argument order,
\* then the Total sheet, then one close; nothing changes the workbook after it.
C3_RunOrder ==
    /\ []EventsOrdered
    /\ [][workbook.closed >= 1 => workbook' = workbook]_vars

C3_Witness == pc = "done" /\ Len(Files) = 2 /\ Len(events) = 6

\* C4: the workbook is closed only in a run without error; after a usage
\* error or a failed read no workbook exists.
C4_CloseOnlyWithoutError ==
    /\ workbook.closed > 0 =>
          /\ Len(argv) >= 2
          /\ \A n \in Range(Files) : FileValid(fs[n])
          /\ exit_status = 0
    /\ (Len(argv) < 2 \/ \E n \in Range(Files) : ~fs[n].readable) => ~workbook.created
    /\ Len(argv) < 2 /\ pc # "main" =>
          pc = "exited" /\ exit_status = 1 /\ stdout = <<<<"Usage", argv[1]>>>>

C4_Witness ==
    /\ pc = "raised"
    /\ Len(Files) = 2
    /\ fs[Files[1]].readable /\ ~fs[Files[2]].readable
    /\ Len(data) = 1
    /\ ~workbook.created

Injective(p) == \A i, j \in DOMAIN p : p[i] = p[j] => i = j

\* row r of the sheet holds the values of input row x
RowIsWritten(sh, r, x) ==
    /\ \A c \in 0..10 : <<r, c>> \in DOMAIN sh.cells
    /\ sh.cells[<<r, 0>>].s = x[1]
    /\ sh.cells[<<r, 1>>].n = IntOf(x[2])
    /\ sh.cells[<<r, 3>>].n = IntOf(x[3])
    /\ sh.cells[<<r, 5>>].n = IntOf(x[4])
    /\ sh.cells[<<r, 7>>].n = IntOf(x[5])
    /\ sh.cells[<<r, 9>>].n = IntOf(x[6])
    /\ sh.cells[<<r, 10>>].n = IntOf(x[7])

\* C5: the data rows written are exactly the non-empty input rows, in
\* non-increasing order of file size, rows of equal size in input order.
C5_StableDescendingRows ==
    \A k \in Completed :
        LET sh == workbook.sheets[k]
            rows == InputRows(k)
            n == Len(rows)
        IN  /\ \A c \in 0..10 : <<n + 1, c>> \notin DOMAIN sh.cells
            /\ \E p \in [1..n -> 1..n] :
                  /\ Injective(p)
                  /\ \A i \in 1..n : RowIsWritten(sh, i, rows[p[i]])
                  /\ \A i, j \in 1..n :
                        i < j => \/ IntOf(rows[p[i]][7]) > IntOf(rows[p[j]][7])
                                 \/ /\ IntOf(rows[p[i]][7]) = IntOf(rows[p[j]][7])
                                    /\ p[i] < p[j]

\* three rows, the largest last and the two before it of equal size but
\* different files
C5_Witness ==
    /\ pc = "done"
    /\ Len(data[1][2]) = 3
    /\ LET rows == InputRows(1)
       IN  /\ Len(rows) = 3
           /\ rows[1][7] = rows[2][7]
           /\ rows[1][1] # rows[2][1]
           /\ IntOf(rows[3][7]) > IntOf(rows[1][7])

\* out is nm between its prefix and suffix, at most 30 characters of it
StrippedAs(nm, out) ==
    LET hasP == Len(nm) >= 6 /\ \A i \in 1..6 : nm[i] = STATS[i]
        a == IF hasP THEN 6 ELSE 0
        hasS == Len(nm) - a >= 4 /\ \A i \in 1..4 : nm[Len(nm) - 4 + i] = CSV[i]
        b == IF hasS THEN 4 ELSE 0
        L == IF Len(nm) - a - b < 30 THEN Len(nm) - a - b ELSE 30
    IN  Len(out) = L /\ \A i \in 1..L : out[i] = nm[a + i]

\* C6: the name of the sheet created, which is also the name returned, is
\* the input name without a leading 'stats-', then without a trailing
\* '.csv', cut to its first 30 characters.
C6_SheetNameDerived ==
    \A k \in Completed :
        /\ Len(workbook.sheets[k].name) <= 30
        /\ worksheet_names[k] = workbook.sheets[k].name
        /\ StrippedAs(Files[k], workbook.sheets[k].name)

\* prefix and suffix present, and more than 30 characters between them
C6_Witness ==
    /\ Len(worksheet_names) = 1
    /\ Files[1] = STATS \o Rep("x", 31) \o CSV
    /\ worksheet_names[1] = Rep("x", 30)

\* the 0-based columns of the percentage cells
PctColumns == {2, 4, 6, 8}

\* C7: in every data row, each percentage cell divides the cell of the same
\* row that holds the stage's time by the cell of the same row that holds
\* the total time.
C7_PercentagesSameRow ==
    \A k \in 1..Len(workbook.sheets) :
        LET sh == workbook.sheets[k]
        IN  \A r \in DataRows(sh) : \A c \in PctColumns :
              LET cell == sh.cells[<<r, c>>]
              IN  /\ cell.t = "formula"
                  /\ cell.f.op = "div"
                  /\ At(sh, cell.f.num.col, cell.f.num.row) = <<r, c - 1>>
                  /\ At(sh, cell.f.den.col, cell.f.den.row) = <<r, total_column>>
                  /\ HasNum(sh, <<r, c - 1>>)
                  /\ HasNum(sh, <<r, total_column>>)
                  /\ \E x \in Range(InputRows(k)) :
                        /\ RowValid(x)
                        /\ sh.cells[<<r, 0>>].s = x[1]
                        /\ sh.cells[<<r, c - 1>>].n = IntOf(x[c \div 2 + 1])
                        /\ sh.cells[<<r, total_column>>].n = IntOf(x[6])

C7_Witness ==
    /\ Len(worksheet_names) = 1
    /\ Cardinality(DataRows(workbook.sheets[1])) = 3

\* the cells of a sheet that hold a formula of one kind
FormulaCells(sh, op) ==
    {pos \in DOMAIN sh.cells : sh.cells[pos].t = "formula" /\ sh.cells[pos].f.op = op}

\* C8: row i of the Total sheet refers to the cell of sheet i that holds its
\* grand-total formula, the aggregate sums exactly those N cells, and every
\* share formula divides by the cell that holds the aggregate.
C8_TotalSheetReferences ==
    pc \in {"close", "done"} =>
        LET N == Len(worksheet_names)
            T == workbook.sheets[N + 1]
            refs == FormulaCells(T, "ref")
        IN  /\ T.name = TOTAL
            /\ Cardinality(refs) = N
            /\ \A i \in 1..N :
                  LET pos == <<i - 1, 1>>
                      f == T.cells[pos].f
                      target == {k \in 1..N : workbook.sheets[k].name = f.sheet}
                  IN  /\ pos \in refs
                      /\ target = {i}
                      /\ FormulaCells(workbook.sheets[i], "sum_div")
                            = {At(workbook.sheets[i], f.col, f.row)}
            /\ \E agg \in FormulaCells(T, "sum") :
                  /\ FormulaCells(T, "sum") = {agg}
                  /\ {At(T, T.cells[agg].f.col, r) :
                        r \in RangeRows(T.cells[agg].f.r1, T.cells[agg].f.r2)} = refs
                  /\ Cardinality(FormulaCells(T, "ref_div")) = N
                  /\ \A i \in 1..N :
                        LET s == T.cells[<<i - 1, 2>>].f
                            f == T.cells[<<i - 1, 1>>].f
                        IN  /\ <<i - 1, 2>> \in FormulaCells(T, "ref_div")
                            /\ <<s.sheet, s.col, s.row>> = <<f.sheet, f.col, f.row>>
                            /\ At(T, s.dcol, s.drow) = agg

C8_Witness == pc = "done" /\ Len(worksheet_names) = 2

\* the tier of the ratio stage / total
ExpectedTier(stage, total) ==
    IF stage * 100 > 75 * total THEN "black_bg_format"
    ELSE IF stage * 100 > 50 * total THEN "red_bg_format"
    ELSE IF stage * 100 > 25 * total THEN "yellow_bg_format"
    ELSE "green_bg_format"

\* C9: every positive percentage cell of every data row lies in the range of
\* the four rules of its column, and the first declared rule it satisfies is
\* black above 0.75, red above 0.5, yellow above 0.25, green above 0.
C9_OneDominantTier ==
    \A k \in Completed :
        LET sh == workbook.sheets[k]
        IN  \A r \in DataRows(sh) : \A c \in PctColumns :
              LET stage == sh.cells[<<r, c - 1>>].n
                  total == sh.cells[<<r, total_column>>].n
                  matching == {j \in 1..Len(sh.cond) :
                                 /\ ColIndex(sh.cond[j].range.col) = c
                                 /\ r + 1 \in RangeRows(sh.cond[j].range.r1, sh.cond[j].range.r2)
                                 /\ stage * 100 > sh.cond[j].value * total}
              IN  (stage > 0 /\ total > 0) =>
                    /\ matching # {}
                    /\ sh.cond[CHOOSE j \in matching : \A m \in matching : j <= m].format
                          = ExpectedTier(stage, total)

\* C10: each of the five averages ranges over all n data rows of its column
\* (rows 2..n+1) and over nothing else but the header.
C10_AveragesCoverDataRows ==
    \A k \in Completed :
        LET sh == workbook.sheets[k]
            n == Len(InputRows(k))
            avg == [r \in 0..4 |-> sh.cells[<<r, stats_column + 1>>].f]
            col == <<"B", "C", "E", "G", "I">>
        IN  n >= 1 =>
              \A r \in 0..4 :
                  /\ avg[r].op = "average"
                  /\ avg[r].col = col[r + 1]
                  /\ 2..(n + 1) \subseteq RangeRows(avg[r].r1, avg[r].r2)
                  /\ RangeRows(avg[r].r1, avg[r].r2) \subseteq 1..(n + 1)

====
